---- MODULE Spec2Model ----
(***************************************************************************)
(* Docstring quality pipeline of src/utils/noise_removal/noise_removal.py: *)
(* the comment-delimiter stripper, the aside / tag / URL removers, the     *)
(* nine noise predicates, the quality gate check_docstring, the cleaning   *)
(* orchestrator clean_docstring and the function admissibility filter      *)
(* check_function.                                                         *)
(*                                                                         *)
(* A Python str is a sequence of one-character strings.  None is the       *)
(* one-element sequence NoneValue, whose element is no character.  A call  *)
(* outcome is a record whose field exc names the exception that escaped    *)
(* the call ("none" when it returned).                                     *)
(***************************************************************************)
EXTENDS Integers, Sequences, FiniteSets, TLC

---------------------------------------------------------------------------
(* Characters and the built-in str operations the module relies on.        *)

LowerSeq == <<"a","b","c","d","e","f","g","h","i","j","k","l","m","n","o","p","q","r","s","t","u","v","w","x","y","z">>
UpperSeq == <<"A","B","C","D","E","F","G","H","I","J","K","L","M","N","O","P","Q","R","S","T","U","V","W","X","Y","Z">>
DigitSeq == <<"0","1","2","3","4","5","6","7","8","9">>

Range(f) == {f[i] : i \in DOMAIN f}

Lower == Range(LowerSeq)
Upper == Range(UpperSeq)
Digit == Range(DigitSeq)
Alpha == Lower \cup Upper

\* One letter outside ASCII (e-acute): str.isascii() is false on it, the
\* regex class \w holds it, [a-zA-Z] does not.
NonAsciiLetter == "U+00E9"

\* ASCII whitespace: what str.strip(), str.split() and the regex class \s
\* remove or match.
WS == {" ", "\t", "\n", "\r", "\f"}

NoneValue == <<"None">>

IsSpace(c) == c \in WS

\* The regex class \w on str patterns.
IsWord(c) == c \in Alpha \cup Digit \cup {"_", NonAsciiLetter}

\* Case folding of the (?i) flag on the characters of the model.
ToLower(c) ==
    IF c \in Upper THEN LowerSeq[CHOOSE i \in 1..26 : UpperSeq[i] = c] ELSE c

Min(S) == CHOOSE x \in S : \A y \in S : x <= y
Max(S) == CHOOSE x \in S : \A y \in S : x >= y

\* Length of the longest prefix / suffix of s made of characters of C.
LeadRun(s, C) ==
    IF \A i \in 1..Len(s) : s[i] \in C THEN Len(s)
    ELSE (CHOOSE i \in 1..Len(s) :
              s[i] \notin C /\ \A j \in 1..(i - 1) : s[j] \in C) - 1

TrailRun(s, C) ==
    IF \A i \in 1..Len(s) : s[i] \in C THEN Len(s)
    ELSE (CHOOSE k \in 1..Len(s) :
              s[Len(s) + 1 - k] \notin C
              /\ \A j \in 1..(k - 1) : s[Len(s) + 1 - j] \in C) - 1

LStrip(s, C) == SubSeq(s, LeadRun(s, C) + 1, Len(s))
RStrip(s, C) == SubSeq(s, 1, Len(s) - TrailRun(s, C))

\* str.strip()
Strip(s) == RStrip(LStrip(s, WS), WS)

\* The k-th element (from 1) of a finite set of integers in increasing order.
Nth(S, k) == CHOOSE p \in S : Cardinality({q \in S : q < p}) = k - 1

\* str.split(c) on a one-character separator: always at least one piece.
SplitOn(s, c) ==
    LET cuts == {i \in 1..Len(s) : s[i] = c}
        n == Cardinality(cuts)
        cut(k) == IF k = 0 THEN 0
                  ELSE IF k = n + 1 THEN Len(s) + 1
                  ELSE Nth(cuts, k)
    IN  [k \in 1..(n + 1) |-> SubSeq(s, cut(k - 1) + 1, cut(k) - 1)]

\* Where the tokens of str.split() start: the maximal runs of non-whitespace.
TokenStarts(s) ==
    {i \in 1..Len(s) : ~IsSpace(s[i]) /\ (i = 1 \/ IsSpace(s[i - 1]))}

\* len(s.split())
NumTokens(s) == Cardinality(TokenStarts(s))

\* str.split() with no argument.
SplitWS(s) ==
    LET starts == TokenStarts(s)
        stop(i) == IF \A j \in i..Len(s) : ~IsSpace(s[j]) THEN Len(s)
                   ELSE (CHOOSE j \in i..Len(s) :
                            IsSpace(s[j])
                            /\ \A m \in i..(j - 1) : ~IsSpace(s[m])) - 1
    IN  [k \in 1..Cardinality(starts) |->
            SubSeq(s, Nth(starts, k), stop(Nth(starts, k)))]

\* "".join(s.strip().split())
RemoveWS(s) == SelectSeq(s, LAMBDA c : ~IsSpace(c))

\* sep.join(lines)
RECURSIVE Join(_, _)
Join(lines, sep) ==
    IF Len(lines) = 0 THEN <<>>
    ELSE IF Len(lines) = 1 THEN lines[1]
    ELSE lines[1] \o <<sep>> \o Join(Tail(lines), sep)

MatchAt(s, i, pat) ==
    /\ i >= 1
    /\ i + Len(pat) - 1 <= Len(s)
    /\ \A k \in 1..Len(pat) : s[i + k - 1] = pat[k]

\* The same, under the (?i) flag.
MatchAtCI(s, i, pat) ==
    /\ i >= 1
    /\ i + Len(pat) - 1 <= Len(s)
    /\ \A k \in 1..Len(pat) : ToLower(s[i + k - 1]) = ToLower(pat[k])

\* str.replace(pat, rep): leftmost non-overlapping occurrences.
RECURSIVE ReplaceAll(_, _, _)
ReplaceAll(s, pat, rep) ==
    LET hits == {i \in 1..Len(s) : MatchAt(s, i, pat)}
    IN  IF hits = {} THEN s
        ELSE LET i == Min(hits)
             IN  SubSeq(s, 1, i - 1) \o rep
                 \o ReplaceAll(SubSeq(s, i + Len(pat), Len(s)), pat, rep)

\* The regex assertion \b between s[p] and s[p+1] (p = 0: before the
\* first character; p = Len(s): after the last).
WordBoundary(s, p) ==
    LET before == p >= 1 /\ p <= Len(s) /\ IsWord(s[p])
        after == p + 1 >= 1 /\ p + 1 <= Len(s) /\ IsWord(s[p + 1])
    IN  before # after

---------------------------------------------------------------------------
(* The text normalisers.                                                   *)

\* clean_p1, first alternative: ([\s\/*=-]+)$
DelimTail == WS \cup {"/", "*", "=", "-"}
\* clean_p1, second alternative: ^([\s\/*!=#-]+)
DelimHead == WS \cup {"/", "*", "!", "=", "#", "-"}
\* clean_p2: ^([\s*]+)
DelimLine == WS \cup {"*"}

\* func(t) of remove_comment_delimiters
CleanLine(t) ==
    Strip(LStrip(ReplaceAll(Strip(t), <<"&","n","b","s","p",";">>, <<" ">>), DelimLine))

\* re.sub(clean_p1, '', docstring): the leading run of DelimHead goes (at
\* offset 0 the first alternative wins only when the run reaches the end,
\* where both remove everything), then the trailing run of DelimTail.
StripBorders(docstring) == RStrip(LStrip(docstring, DelimHead), DelimTail)

remove_comment_delimiters(docstring) ==
    LET lines == SplitOn(StripBorders(docstring), "\n")
        cur == [k \in 1..Len(lines) |-> CleanLine(lines[k])]
    IN  SelectSeq(cur, LAMBDA cur_line : cur_line # <<>>)

\* pattern1 = \((i\.e|e\.g|\beg|\bie).*?\)
AsideMarkers == <<<<"i",".","e">>, <<"e",".","g">>, <<"e","g">>, <<"i","e">>>>

\* Index of the ")" closing a match of pattern1 that starts at i, or 0.
\* The dot of .*? matches no line break: the first of ")" and "\n" after
\* the marker decides.
AsideEnd(s, i) ==
    IF i > Len(s) \/ s[i] # "(" THEN 0
    ELSE LET ms == {m \in 1..Len(AsideMarkers) :
                       MatchAt(s, i + 1, AsideMarkers[m])}
         IN  IF ms = {} THEN 0
             ELSE LET from == i + 1 + Len(AsideMarkers[Min(ms)])
                      stops == {j \in from..Len(s) : s[j] \in {")", "\n"}}
                  IN  IF stops = {} THEN 0
                      ELSE IF s[Min(stops)] = ")" THEN Min(stops) ELSE 0

RECURSIVE remove_unrelevant(_)
remove_unrelevant(docstring) ==
    LET hits == {i \in 1..Len(docstring) : AsideEnd(docstring, i) > 0}
    IN  IF hits = {} THEN docstring
        ELSE LET i == Min(hits)
             IN  SubSeq(docstring, 1, i - 1)
                 \o remove_unrelevant(SubSeq(docstring,
                        AsideEnd(docstring, i) + 1, Len(docstring)))

\* Index of the last character of a match of http\S+ starting at i, or 0.
UrlEnd(s, i) ==
    IF MatchAt(s, i, <<"h","t","t","p">>) /\ i + 4 <= Len(s) /\ ~IsSpace(s[i + 4])
    THEN i + 3 + LeadRun(SubSeq(s, i + 4, Len(s)), {c \in Range(s) : ~IsSpace(c)})
    ELSE 0

\* re.sub(r'http\S+', replace, docstring)
RECURSIVE remove_url(_, _)
remove_url(docstring, replace) ==
    LET hits == {i \in 1..Len(docstring) : UrlEnd(docstring, i) > 0}
    IN  IF hits = {} THEN docstring
        ELSE LET i == Min(hits)
             IN  SubSeq(docstring, 1, i - 1) \o replace
                 \o remove_url(SubSeq(docstring,
                        UrlEnd(docstring, i) + 1, Len(docstring)), replace)

\* Index of the ">" closing a markup tag opened at i, or 0.  The markup
\* parser behind get_text() takes "<" followed by a letter or "/" as the
\* start of a tag; a tag that is never closed stays text.
TagEnd(s, i) ==
    IF i + 1 <= Len(s) /\ s[i] = "<" /\ s[i + 1] \in Alpha \cup {"/"}
    THEN LET closes == {j \in (i + 1)..Len(s) : s[j] = ">"}
         IN  IF closes = {} THEN 0 ELSE Min(closes)
    ELSE 0

\* BeautifulSoup(docstring, "html.parser").get_text(): the visible text.
RECURSIVE remove_special_tag(_)
remove_special_tag(docstring) ==
    LET hits == {i \in 1..Len(docstring) : TagEnd(docstring, i) > 0}
    IN  IF hits = {} THEN docstring
        ELSE LET i == Min(hits)
             IN  SubSeq(docstring, 1, i - 1)
                 \o remove_special_tag(SubSeq(docstring,
                        TagEnd(docstring, i) + 1, Len(docstring)))

---------------------------------------------------------------------------
(* The noise predicates.  Each returns Ret(b), or Raise(e) when the Python *)
(* function lets exception e escape.  Ratios against a decimal threshold   *)
(* are compared in integers: n / d < 0.7 is 10 * n < 7 * d.                *)

Ret(b) == [exc |-> "none", val |-> b]
Raise(e) == [exc |-> e, val |-> FALSE]

\* str.isascii()
isascii(s) == \A i \in 1..Len(s) : s[i] # NonAsciiLetter

\* Token bounds of check_docstring_length: len <= 3 or len >= 256.
MinTokens == 3
MaxTokens == 256

\* check_docstring_length with "<" for "<=" at the lower bound.
check_docstring_length_strict(docstring) ==
    LET doc_tokens == NumTokens(Strip(docstring))
    IN  IF doc_tokens < MinTokens \/ doc_tokens >= MaxTokens
        THEN Ret(TRUE) ELSE Ret(FALSE)

check_docstring_length(docstring) ==
    LET doc_tokens == NumTokens(Strip(docstring))
    IN  IF doc_tokens <= MinTokens \/ doc_tokens >= MaxTokens
        THEN Ret(TRUE) ELSE Ret(FALSE)

check_docstring_literal(docstring) ==
    IF ~isascii(docstring) THEN Ret(TRUE)
    ELSE IF ~(\E i \in 1..Len(docstring) : docstring[i] \in Alpha) THEN Ret(TRUE)
    ELSE Ret(FALSE)

\* A word of the question pattern followed by \b, at the start of s.
StartsWord(s, w) == MatchAtCI(s, 1, w) /\ WordBoundary(s, Len(w))

\* (?i)^(why\b|how\b|what\'?s?\b|where\b|is\b|are\b)
QuestionPattern(s) ==
    \/ StartsWord(s, <<"w","h","y">>)
    \/ StartsWord(s, <<"h","o","w">>)
    \/ /\ MatchAtCI(s, 1, <<"w","h","a","t">>)
       /\ \E q \in {0, 1}, r \in {0, 1} :
            /\ q = 1 => MatchAt(s, 5, <<"'">>)
            /\ r = 1 => MatchAtCI(s, 5 + q, <<"s">>)
            /\ WordBoundary(s, 4 + q + r)
    \/ StartsWord(s, <<"w","h","e","r","e">>)
    \/ StartsWord(s, <<"i","s">>)
    \/ StartsWord(s, <<"a","r","e">>)

\* docstring[-1] raises IndexError on the empty string.
check_docstring_contain_question(docstring) ==
    IF Len(docstring) = 0 THEN Raise("IndexError")
    ELSE IF docstring[Len(docstring)] = "?" \/ QuestionPattern(docstring)
    THEN Ret(TRUE) ELSE Ret(FALSE)

\* p1 of check_docstring_underdevelopment
UnderDevP1(s) ==
    \/ MatchAtCI(s, 1, <<"D","e","s","c","r","i","p","t","i","o","n"," ","o","f"," ","t","h","e"," ","M","e","t","h","o","d">>)
    \/ MatchAtCI(s, 1, <<"N","O","T"," ","Y","E","T"," ","D","O","C","U","M","E","N","T","E","D">>)
    \/ /\ MatchAtCI(s, 1, <<"M","i","s","s","i","n","g">>)
       /\ \E j \in 9..Len(s) : MatchAtCI(s, j, <<"D","e","s","c","r","i","p","t","i","o","n">>)
    \/ MatchAtCI(s, 1, <<"n","o","t"," ","i","n"," ","u","s","e">>)
    \/ MatchAtCI(s, 1, <<"I","n","s","e","r","t"," ","t","h","e"," ","m","e","t","h","o","d","'","s"," ","d","e","s","c","r","i","p","t","i","o","n"," ","h","e","r","e">>)
    \/ MatchAtCI(s, 1, <<"N","o"," ","i","m","p","l","e","m","e","n","t","a","t","i","o","n"," ","p","r","o","v","i","d","e","d">>)
    \/ MatchAtCI(s, 1, <<"(","n","o","n","-","J","a","v","a","d","o","c",")">>)

\* p2 = (?i)^(todo|deprecate|copyright|fixme)
UnderDevP2(s) ==
    \/ MatchAtCI(s, 1, <<"t","o","d","o">>)
    \/ MatchAtCI(s, 1, <<"d","e","p","r","e","c","a","t","e">>)
    \/ MatchAtCI(s, 1, <<"c","o","p","y","r","i","g","h","t">>)
    \/ MatchAtCI(s, 1, <<"f","i","x","m","e">>)

\* p3 = ^[A-Za-z]+(\([A-Za-z_]+\))?:
UnderDevP3(s) ==
    LET n == LeadRun(s, Alpha)
        m == LeadRun(SubSeq(s, n + 2, Len(s)), Alpha \cup {"_"})
    IN  /\ n >= 1
        /\ \/ MatchAt(s, n + 1, <<":">>)
           \/ /\ MatchAt(s, n + 1, <<"(">>)
              /\ m >= 1
              /\ MatchAt(s, n + 2 + m, <<")",":">>)

\* re.fullmatch(p4, docstring), p4 = [A-Z ]+
UnderDevP4(s) == Len(s) >= 1 /\ \A i \in 1..Len(s) : s[i] \in Upper \cup {" "}

\* re.fullmatch(p5, docstring), p5 = \(.+\)|\[.+\]|\{.+\}
UnderDevP5(s) ==
    /\ Len(s) >= 3
    /\ <<s[1], s[Len(s)]>> \in {<<"(", ")">>, <<"[", "]">>, <<"{", "}">>}
    /\ \A i \in 2..(Len(s) - 1) : s[i] # "\n"

check_docstring_underdevelopment(docstring) ==
    IF UnderDevP1(docstring) \/ UnderDevP2(docstring) \/ UnderDevP3(docstring)
    THEN Ret(TRUE)
    ELSE IF UnderDevP4(docstring) \/ UnderDevP5(docstring) THEN Ret(TRUE)
    ELSE Ret(FALSE)

\* p1 = (?i)@[a-zA-Z]*generated\b, anywhere in the text
AutoGenP1(s) ==
    \E i \in 1..Len(s) :
        /\ s[i] = "@"
        /\ \E j \in (i + 1)..Len(s) :
              /\ \A k \in (i + 1)..(j - 1) : s[k] \in Alpha
              /\ MatchAtCI(s, j, <<"g","e","n","e","r","a","t","e","d">>)
              /\ WordBoundary(s, j + 8)

\* p2 = (?i)^([aA]uto[-\s]generated)
AutoGenP2(s) ==
    /\ MatchAtCI(s, 1, <<"a","u","t","o">>)
    /\ Len(s) >= 5 /\ s[5] \in WS \cup {"-"}
    /\ MatchAtCI(s, 6, <<"g","e","n","e","r","a","t","e","d">>)

check_docstring_autogenerated(docstring) ==
    IF AutoGenP1(docstring) THEN Ret(TRUE)
    ELSE IF \/ AutoGenP2(docstring)
            \/ MatchAtCI(docstring, 1, <<"T","h","i","s"," ","m","e","t","h","o","d"," ","i","n","i","t","i","a","l","i","z","e","s">>)
            \/ MatchAtCI(docstring, 1, <<"T","h","i","s"," ","m","e","t","h","o","d"," ","w","a","s"," ","g","e","n","e","r","a","t","e","d"," ","b","y">>)
    THEN Ret(TRUE)
    ELSE Ret(FALSE)

\* Thresholds, in tenths.
LittleCharTenths == 7
SpecialCaseTenths == 3
RepeatedTenths == 4
UppercaseTenths == 3
\* Lengths and counts the predicates compare against.
RepeatedMinLen == 30
UppercaseMinTokens == 4
LongWordLen == 30

check_contain_little_single_char(docstring) ==
    LET d == RemoveWS(Strip(docstring))
        num_alphabet_chars == Cardinality({i \in 1..Len(d) : d[i] \in Alpha})
    IN  IF Len(d) <= 1 THEN Ret(TRUE)
        ELSE Ret(10 * num_alphabet_chars < LittleCharTenths * Len(d))

\* Where the maximal runs of characters of C start in s.
RunStarts(s, C) ==
    {i \in 1..Len(s) : s[i] \in C /\ (i = 1 \/ s[i - 1] \notin C)}

\* Last index of the run of characters of C that holds index i.
RunEnd(s, i, C) == i - 1 + LeadRun(SubSeq(s, i, Len(s)), C)

WordChars == Alpha \cup Digit \cup {"_", NonAsciiLetter}
AlnumChars == Alpha \cup Digit

\* len(re.findall("\w+_\w+", docstring)): a greedy match takes a whole run
\* of \w, and a run matches when it holds "_" strictly inside.
CountSnakeCases(s) ==
    Cardinality({a \in RunStarts(s, WordChars) :
        \E p \in (a + 1)..(RunEnd(s, a, WordChars) - 1) : s[p] = "_"})

\* Whether the camelCase pattern
\*   [A-Z]([A-Z0-9]*[a-z][a-z0-9]*[A-Z]|[a-z0-9]*[A-Z][A-Z0-9]*[a-z])[A-Za-z0-9]*
\* matches from index i, inside the alphanumeric run that ends at e.
CamelAt(s, i, e) ==
    /\ s[i] \in Upper
    /\ \E j \in (i + 1)..e, k \in (i + 2)..e :
        /\ j < k
        /\ \/ /\ \A m \in (i + 1)..(j - 1) : s[m] \in Upper \cup Digit
              /\ s[j] \in Lower
              /\ \A m \in (j + 1)..(k - 1) : s[m] \in Lower \cup Digit
              /\ s[k] \in Upper
           \/ /\ \A m \in (i + 1)..(j - 1) : s[m] \in Lower \cup Digit
              /\ s[j] \in Upper
              /\ \A m \in (j + 1)..(k - 1) : s[m] \in Upper \cup Digit
              /\ s[k] \in Lower

\* len(re.findall(camelCase pattern, docstring)): the greedy tail takes the
\* rest of the alphanumeric run, so a run holds at most one match.
CountCamelCases(s) ==
    Cardinality({a \in RunStarts(s, AlnumChars) :
        \E i \in a..RunEnd(s, a, AlnumChars) :
            CamelAt(s, i, RunEnd(s, a, AlnumChars))})

check_contain_many_special_case(docstring) ==
    LET total_words == NumTokens(Strip(docstring))
    IN  IF total_words = 0 THEN Ret(TRUE)
        ELSE Ret(10 * (CountSnakeCases(docstring) + CountCamelCases(docstring))
                    > SpecialCaseTenths * total_words)

\* counter.most_common()[0][1]
MostCommonCount(d) ==
    Max({Cardinality({i \in 1..Len(d) : d[i] = c}) : c \in Range(d)})

\* The right operand of "and" is not evaluated on a short text.
check_contain_many_repeated_word(docstring) ==
    LET d == RemoveWS(Strip(docstring))
    IN  Ret(Len(d) > RepeatedMinLen
            /\ 10 * MostCommonCount(d) > RepeatedTenths * Len(d))

\* The date patterns lowered one after the other.
LowerDatePatterns(s) ==
    ReplaceAll(ReplaceAll(ReplaceAll(ReplaceAll(s,
        <<"D","D">>, <<"d","d">>), <<"M","M">>, <<"m","m">>), <<"Y","Y">>, <<"y","y">>), <<"Y","Y","Y","Y">>, <<"y","y","y","y">>)

\* len(re.findall("[A-Z][A-Z0-9]+", docstring)): one match per run of
\* capitals and digits that holds a capital before its last character.
CountUppercaseWords(s) ==
    Cardinality({a \in RunStarts(s, Upper \cup Digit) :
        \E i \in a..(RunEnd(s, a, Upper \cup Digit) - 1) : s[i] \in Upper})

check_contain_many_uppercase_word(docstring) ==
    LET d == Strip(LowerDatePatterns(docstring))
        docstring_tokens == NumTokens(Strip(d))
    IN  Ret(docstring_tokens > UppercaseMinTokens
            /\ 10 * CountUppercaseWords(d) > UppercaseTenths * docstring_tokens)

check_contain_many_long_word(docstring) ==
    LET docstring_tokens == SplitWS(Strip(docstring))
        parts == UNION {Range(SplitOn(Strip(docstring_tokens[k]), "_")) :
                            k \in 1..Len(docstring_tokens)}
    IN  IF Len(docstring_tokens) = 0 THEN Ret(TRUE)
        ELSE Ret(Max({Len(p) : p \in parts}) > LongWordLen)

---------------------------------------------------------------------------
(* The quality gate.                                                       *)

\* check_funcs_mapping, zipped with check_docstring_funcs: the active battery.
Battery ==
    <<"check_docstring_literal",
      "check_docstring_contain_question",
      "check_docstring_underdevelopment",
      "check_docstring_autogenerated",
      "check_contain_little_single_char",
      "check_contain_many_special_case",
      "check_contain_many_repeated_word",
      "check_contain_many_uppercase_word",
      "check_contain_many_long_word">>

\* check_condition(docstring) for the battery entry called name.
ApplyPredicate(name, docstring) ==
    CASE name = "check_docstring_literal" ->
            check_docstring_literal(docstring)
      [] name = "check_docstring_contain_question" ->
            check_docstring_contain_question(docstring)
      [] name = "check_docstring_underdevelopment" ->
            check_docstring_underdevelopment(docstring)
      [] name = "check_docstring_autogenerated" ->
            check_docstring_autogenerated(docstring)
      [] name = "check_contain_little_single_char" ->
            check_contain_little_single_char(docstring)
      [] name = "check_contain_many_special_case" ->
            check_contain_many_special_case(docstring)
      [] name = "check_contain_many_repeated_word" ->
            check_contain_many_repeated_word(docstring)
      [] name = "check_contain_many_uppercase_word" ->
            check_contain_many_uppercase_word(docstring)
      [] name = "check_contain_many_long_word" ->
            check_contain_many_long_word(docstring)

\* The outcome of check_docstring: the pair (result, applied_res) it
\* returns, and how many predicates it called on the way.
GateOutcome(exc, result, applied_res, evaluated) ==
    [exc |-> exc, result |-> result, applied_res |-> applied_res,
     evaluated |-> evaluated]

\* GateLoop without the test for an empty or None docstring.
RECURSIVE GateLoopUnguarded(_, _, _, _)
GateLoopUnguarded(docstring, k, result, applied_res) ==
    IF k > Len(Battery) THEN GateOutcome("none", result, applied_res, k - 1)
    ELSE LET fired == ApplyPredicate(Battery[k], docstring)
         IN  IF fired.exc # "none"
             THEN GateOutcome(fired.exc, result, applied_res, k)
             ELSE IF fired.val
             THEN GateLoopUnguarded(docstring, k + 1, TRUE,
                           Append(applied_res, <<Battery[k], docstring>>))
             ELSE GateLoopUnguarded(docstring, k + 1, result, applied_res)

\* GateLoop returning at the first predicate that fires.
RECURSIVE GateLoopShortCircuit(_, _, _, _)
GateLoopShortCircuit(docstring, k, result, applied_res) ==
    IF k > Len(Battery) THEN GateOutcome("none", result, applied_res, k - 1)
    ELSE IF docstring = <<>> \/ docstring = NoneValue
    THEN GateOutcome("none", TRUE, <<>>, k - 1)
    ELSE LET fired == ApplyPredicate(Battery[k], docstring)
         IN  IF fired.exc # "none"
             THEN GateOutcome(fired.exc, result, applied_res, k)
             ELSE IF fired.val
             THEN GateOutcome("none", TRUE,
                              Append(applied_res, <<Battery[k], docstring>>), k)
             ELSE GateLoopShortCircuit(docstring, k + 1, result, applied_res)

\* The for loop of check_docstring from battery entry k on.  The test for
\* an empty or None docstring sits inside the loop, ahead of the call.
RECURSIVE GateLoop(_, _, _, _)
GateLoop(docstring, k, result, applied_res) ==
    IF k > Len(Battery) THEN GateOutcome("none", result, applied_res, k - 1)
    ELSE IF docstring = <<>> \/ docstring = NoneValue
    THEN GateOutcome("none", TRUE, <<>>, k - 1)
    ELSE LET fired == ApplyPredicate(Battery[k], docstring)
         IN  IF fired.exc # "none"
             THEN GateOutcome(fired.exc, result, applied_res, k)
             ELSE IF fired.val
             THEN GateLoop(docstring, k + 1, TRUE,
                           Append(applied_res, <<Battery[k], docstring>>))
             ELSE GateLoop(docstring, k + 1, result, applied_res)

check_docstring(docstring) == GateLoop(docstring, 1, FALSE, <<>>)

---------------------------------------------------------------------------
(* The function admissibility filter.  A node is a record: the kinds of    *)
(* the nodes of its subtree, and the lines it starts and ends on.          *)

\* traverse_type(node, results, kinds): the nodes of the subtree whose kind
\* is one of kinds.
traverse_type(node, kinds) == SelectSeq(node.kinds, LAMBDA k : k \in kinds)

check_node_error(node) ==
    IF Len(traverse_type(node, {"ERROR"})) > 0 THEN TRUE ELSE FALSE

get_node_length(node) == node.line_end - node.line_start

\* Line span at or under which check_function_empty answers False.
EmptySpan == 3

check_function_empty(node) ==
    IF get_node_length(node) <= EmptySpan THEN FALSE ELSE TRUE

black_keywords ==
    <<<<"t","e","s","t","_">>, <<"T","e","s","t","_">>, <<"_","t","e","s","t">>, <<"t","o","S","t","r","i","n","g">>, <<"c","o","n","s","t","r","u","c","t","o","r">>, <<"C","o","n","s","t","r","u","c","t","o","r">>>>

\* "keyword in node_name"
Contains(s, pat) == \E i \in 1..(Len(s) + 1) : MatchAt(s, i, pat)

startswith(s, pat) == MatchAt(s, 1, pat)
endswith(s, pat) == MatchAt(s, Len(s) - Len(pat) + 1, pat)

\* exclude_list is [given |-> FALSE] for the default None, else
\* [given |-> TRUE, names |-> the list].  list.extend(None) raises TypeError
\* before any test of the name.
check_black_node(node_name, exclude_list) ==
    IF ~exclude_list.given THEN Raise("TypeError")
    ELSE LET keywords == black_keywords \o exclude_list.names
         IN  IF startswith(node_name, <<"_","_">>) /\ endswith(node_name, <<"_","_">>)
             THEN Ret(TRUE)
             ELSE IF startswith(node_name, <<"s","e","t">>) \/ startswith(node_name, <<"g","e","t">>)
             THEN Ret(TRUE)
             ELSE IF \E k \in 1..Len(keywords) : Contains(node_name, keywords[k])
             THEN Ret(TRUE)
             ELSE Ret(FALSE)

check_function(node, node_metadata, exclude_list) ==
    LET node_identifier == node_metadata.identifier
        black == check_black_node(node_identifier, exclude_list)
    IN  IF check_node_error(node) THEN Ret(FALSE)
        ELSE IF black.exc # "none" THEN Raise(black.exc)
        ELSE IF black.val THEN Ret(FALSE)
        ELSE IF check_function_empty(node) THEN Ret(FALSE)
        ELSE Ret(TRUE)

---------------------------------------------------------------------------
(* The calls.  One behaviour is one call of an entry point of the module   *)
(* on one input.  clean_docstring runs step by step over its locals, and   *)
(* may then be called once more on the string it returned; the other       *)
(* entry points are applied in one step.                                   *)

VARIABLES
    pc,                \* where the call is
    op,                \* the entry point called
    docstring,         \* the str argument of the text entry points
    predicate,         \* the predicate called directly
    node,              \* check_function: the node
    node_metadata,     \* check_function: the metadata of the node
    exclude_list,      \* check_function: the extra blacklist
    outcome,           \* what check_docstring, a predicate or check_function did
    docstring_list,    \* clean_docstring: the lines to walk
    i,                 \* clean_docstring: index of the next line
    cleaned_docstring, \* clean_docstring: the lines kept so far
    res,               \* clean_docstring: tags of the last gated line
    res_bound,         \* clean_docstring: whether res was ever assigned
    ret,               \* clean_docstring: first component of the returned pair
    exc,               \* clean_docstring: the exception that escaped, or "none"
    pass,              \* clean_docstring: 1, or 2 when run on its own result
    first              \* clean_docstring: the raw comment of pass 1

args == <<op, predicate, node, node_metadata, exclude_list>>
locals == <<docstring_list, i, cleaned_docstring, res, res_bound>>
vars == <<pc, docstring, args, outcome, locals, ret, exc, pass, first>>

\* Bounds of the inputs.
MaxLines == 3
MaxSpan == 5
MaxLongTokens == 257

\* Lines a raw comment is put together from.
LineTemplates ==
    <<<<>>,
      <<"a","b"," ","c","d">>,
      <<"e","f">>,
      <<"T","O","D","O">>,
      <<"(","e",".","g","."," ","x",")">>,
      <<"a","b"," ","c","d"," ","(","e",".","g","."," ","x">>,
      <<"y",")"," ","a","b">>,
      <<"h","t","t","p","x">>,
      <<"<","b",">"," ","<","/","b",">">>,
      <<"/","*"," ","a","b"," ","c","d"," ","*","/">>>>

\* Two-letter tokens, eight to a line: n tokens in all.
LongLetters == <<"a","b","c","d","e","f","g","h">>
LongDoc(n) ==
    LET f == [p \in 1..(3 * n - 1) |->
                LET t == (p - 1) \div 3
                    r == (p - 1) % 3
                IN  IF r = 0 THEN LongLetters[2 * (t % 4) + 1]
                    ELSE IF r = 1 THEN LongLetters[2 * (t % 4) + 2]
                    ELSE IF (t + 1) % 8 = 0 THEN "\n" ELSE " "]
    IN  SubSeq(f, 1, 3 * n - 1)

RawComments ==
    {Join([k \in 1..Len(f) |-> LineTemplates[f[k]]], "\n") :
        f \in UNION {[1..n -> 1..Len(LineTemplates)] : n \in 0..MaxLines}}
    \cup {LongDoc(n) : n \in (MaxLongTokens - 3)..MaxLongTokens}

\* Single lines handed to the gate and to the predicates.
Lines ==
    Range(LineTemplates)
    \cup {<<" ">>, <<"?">>, <<"I","s"," ","x","_","y"," ","o","k","?">>, <<"a","b"," ","c","d"," ","e","f"," ","g","h">>, <<"A","U","T","O","-","G","E","N","E","R","A","T","E","D"," ","B","Y"," ","I","D","E">>,
          <<"i","s"," ","i","t">>, <<"F","O","O"," ","B","A","R"," ","B","A","Z"," ","Q","U","X"," ","A","1"," ","o","k">>, <<"f","o","o","B","a","r"," ","x">>,
          <<"a","a","a","a","a","a","a","a","a","a","a","a","a","a","a","a","a","a","a","a","a","a","a","a","a","a","a","a","a","a","a">>, <<NonAsciiLetter, "a">>}

Identifiers ==
    {<<"_","_","i","n","i","t","_","_">>, <<"c","o","m","p","u","t","e","T","o","t","a","l">>, <<"g","e","t","T","o","t","a","l">>, <<"t","e","s","t","_","t","o","t","a","l">>, <<"r","u","n">>}

ExcludeLists ==
    {[given |-> FALSE, names |-> <<>>],
     [given |-> TRUE, names |-> <<>>],
     [given |-> TRUE, names |-> <<<<"c","o","m","p","u","t","e">>>>],
     [given |-> TRUE, names |-> <<<<"i","n","i","t">>, <<"r","u","n">>>>]}

Nodes ==
    {[kinds |-> k, line_start |-> 0, line_end |-> span] :
        k \in {<<"function_definition", "block">>,
               <<"function_definition", "ERROR", "block">>},
        span \in 0..MaxSpan}

NoNode == [kinds |-> <<>>, line_start |-> 0, line_end |-> 0]
NoMetadata == [identifier |-> <<>>]
NoExclude == [given |-> FALSE, names |-> <<>>]
Pending == [exc |-> "pending"]

\* The locals of clean_docstring on entry: cleaned_docstring = [], res unbound.
FreshLocals ==
    /\ docstring_list = <<>>
    /\ i = 1
    /\ cleaned_docstring = <<>>
    /\ res = <<>>
    /\ res_bound = FALSE

Init ==
    /\ pc = "start"
    /\ outcome = Pending
    /\ FreshLocals
    /\ ret = NoneValue
    /\ exc = "none"
    /\ pass = 1
    /\ \/ /\ op = "clean_docstring"
          /\ docstring \in RawComments
          /\ predicate = "none"
          /\ node = NoNode /\ node_metadata = NoMetadata
          /\ exclude_list = NoExclude
       \/ /\ op = "check_docstring"
          /\ docstring \in Lines \cup {NoneValue}
          /\ predicate = "none"
          /\ node = NoNode /\ node_metadata = NoMetadata
          /\ exclude_list = NoExclude
       \/ /\ op = "predicate"
          /\ docstring \in Lines
          /\ predicate \in Range(Battery)
          /\ node = NoNode /\ node_metadata = NoMetadata
          /\ exclude_list = NoExclude
       \/ /\ op = "check_function"
          /\ docstring = <<>>
          /\ predicate = "none"
          /\ node \in Nodes
          /\ node_metadata \in {[identifier |-> id] : id \in Identifiers}
          /\ exclude_list \in ExcludeLists
    /\ first = docstring

\* clean_docstring, lines 401-405: strip the delimiters, join, remove the
\* asides from the joined text, strip and split into lines.
Normalise ==
    /\ pc = "start" /\ op = "clean_docstring"
    /\ docstring_list' =
          SplitOn(Strip(remove_unrelevant(
              Join(remove_comment_delimiters(docstring), "\n"))), "\n")
    /\ i' = 1
    /\ cleaned_docstring' = <<>>
    /\ pc' = "loop"
    /\ UNCHANGED <<docstring, args, outcome, res, res_bound, ret, exc, pass, first>>

\* LoopBody with "continue" in place of "break": a noisy line is skipped
\* and the walk goes on.
LoopBodyFilter ==
    /\ pc = "loop" /\ i <= Len(docstring_list)
    /\ LET line == remove_special_tag(docstring_list[i])
           gate == check_docstring(line)
       IN  /\ res' = gate.applied_res
           /\ res_bound' = TRUE
           /\ cleaned_docstring' =
                 IF ~gate.result
                 THEN Append(cleaned_docstring, remove_url(line, <<>>))
                 ELSE cleaned_docstring
           /\ i' = i + 1
           /\ pc' = "loop"
    /\ UNCHANGED <<docstring, args, outcome, docstring_list, ret, exc, pass, first>>

\* One iteration of the for loop: strip the tags of the line, gate it,
\* then keep it without its URLs, or break.
LoopBody ==
    /\ pc = "loop" /\ i <= Len(docstring_list)
    /\ LET line == remove_special_tag(docstring_list[i])
           gate == check_docstring(line)
       IN  IF gate.exc # "none"
           THEN /\ pc' = "raised"
                /\ exc' = gate.exc
                /\ UNCHANGED <<i, cleaned_docstring, res, res_bound>>
           ELSE /\ res' = gate.applied_res
                /\ res_bound' = TRUE
                /\ exc' = exc
                /\ IF ~gate.result
                   THEN /\ cleaned_docstring' =
                              Append(cleaned_docstring, remove_url(line, <<>>))
                        /\ i' = i + 1
                        /\ pc' = "loop"
                   ELSE /\ pc' = "join"
                        /\ UNCHANGED <<i, cleaned_docstring>>
    /\ UNCHANGED <<docstring, args, outcome, docstring_list, ret, pass, first>>

\* The loop ran out of lines.
LoopExit ==
    /\ pc = "loop" /\ i > Len(docstring_list)
    /\ pc' = "join"
    /\ UNCHANGED <<docstring, args, outcome, locals, ret, exc, pass, first>>

\* "clean_docstring == ''" compares the function itself with '': never true.
FunctionEqualsEmptyString == FALSE

\* Lines 416-424: join, strip, validate and return.  Reading res raises
\* UnboundLocalError when no iteration assigned it.
Return ==
    /\ pc = "join"
    /\ LET joined == Strip(Join(cleaned_docstring, "\n"))
       IN  IF ~res_bound
           THEN pc' = "raised" /\ exc' = "UnboundLocalError" /\ ret' = ret
           ELSE /\ pc' = "returned"
                /\ exc' = exc
                /\ ret' = IF FunctionEqualsEmptyString
                             \/ check_docstring_length(joined).val
                          THEN NoneValue ELSE joined
    /\ UNCHANGED <<docstring, args, outcome, locals, pass, first>>

\* clean_docstring called on the string its first call returned.
CleanAgain ==
    /\ pc = "returned" /\ op = "clean_docstring"
    /\ pass = 1 /\ ret # NoneValue
    /\ docstring' = ret
    /\ pass' = 2
    /\ pc' = "start"
    /\ docstring_list' = <<>>
    /\ i' = 1
    /\ cleaned_docstring' = <<>>
    /\ res' = <<>>
    /\ res_bound' = FALSE
    /\ ret' = NoneValue
    /\ UNCHANGED <<args, outcome, exc, first>>

\* check_docstring(docstring)
CallCheckDocstring ==
    /\ pc = "start" /\ op = "check_docstring"
    /\ outcome' = check_docstring(docstring)
    /\ pc' = "returned"
    /\ UNCHANGED <<docstring, args, locals, ret, exc, pass, first>>

\* One noise predicate called directly.
CallPredicate ==
    /\ pc = "start" /\ op = "predicate"
    /\ outcome' = ApplyPredicate(predicate, docstring)
    /\ pc' = "returned"
    /\ UNCHANGED <<docstring, args, locals, ret, exc, pass, first>>

\* check_function(node, node_metadata, exclude_list)
CallCheckFunction ==
    /\ pc = "start" /\ op = "check_function"
    /\ outcome' = check_function(node, node_metadata, exclude_list)
    /\ pc' = "returned"
    /\ UNCHANGED <<docstring, args, locals, ret, exc, pass, first>>

Next ==
    \/ Normalise
    \/ LoopBody
    \/ LoopExit
    \/ Return
    \/ CleanAgain
    \/ CallCheckDocstring
    \/ CallPredicate
    \/ CallCheckFunction

Spec == Init /\ [][Next]_vars

---------------------------------------------------------------------------
(* The claims.                                                             *)

\* Whether the gate reports a line of docstring_list as noise.
Noisy(line) == check_docstring(remove_special_tag(line)).result

\* Index of the first noisy line of list, or Len(list) + 1.
FirstNoise(list) ==
    IF \A k \in 1..Len(list) : ~Noisy(list[k]) THEN Len(list) + 1
    ELSE Min({k \in 1..Len(list) : Noisy(list[k])})

\* C1: when the loop of clean_docstring is over, the kept lines are the
\* lines before the first line the gate reports as noise, each with its
\* tags and URLs removed, and nothing else: the walk stopped at that line,
\* and no later line was kept.
C1_KeptIsPrefixBeforeFirstNoise ==
    (op = "clean_docstring" /\ pc \in {"join", "returned"}) =>
        LET n == FirstNoise(docstring_list)
        IN  /\ i = n
            /\ Len(cleaned_docstring) = n - 1
            /\ \A k \in 1..(n - 1) :
                  cleaned_docstring[k] =
                      remove_url(remove_special_tag(docstring_list[k]), <<>>)

\* C1, witness: a string was returned although a clean line follows the
\* noisy line the walk stopped at.
C1_Witness ==
    /\ op = "clean_docstring" /\ pc = "returned" /\ ret # NoneValue
    /\ Len(cleaned_docstring) >= 1
    /\ \E k \in (i + 1)..Len(docstring_list) : ~Noisy(docstring_list[k])

\* C2: a string clean_docstring returns has at least 4 and at most 255
\* whitespace-delimited tokens, and kept lines that join to 3 or fewer, or
\* to 256 or more, tokens are returned as None.
C2_ReturnedTokenBounds ==
    (op = "clean_docstring" /\ pc = "returned") =>
        LET n == NumTokens(Strip(Join(cleaned_docstring, "\n")))
        IN  /\ ret # NoneValue => (NumTokens(ret) >= 4 /\ NumTokens(ret) <= 255)
            /\ (n <= 3 \/ n >= 256) => ret = NoneValue

\* C2, witness: a string of exactly 255 tokens is returned.
C2_Witness ==
    /\ op = "clean_docstring" /\ pc = "returned"
    /\ ret # NoneValue /\ NumTokens(ret) = 255

\* C3: for a node with no error marker and an identifier that is not
\* blacklisted, check_function returns False when the line span is <= 3
\* and True when it is greater than 3.
C3_SpanDecidesAdmission ==
    (/\ op = "check_function" /\ pc = "returned"
     /\ ~check_node_error(node)
     /\ exclude_list.given
     /\ ~check_black_node(node_metadata.identifier, exclude_list).val) =>
        outcome = Ret(get_node_length(node) > 3)

\* C4: check_function returns False on a node named __init__, whatever
\* the body length and the extra blacklist, the default None included.
C4_DunderAlwaysRejected ==
    (/\ op = "check_function" /\ pc = "returned"
     /\ node_metadata.identifier = <<"_","_","i","n","i","t","_","_">>) =>
        outcome = Ret(FALSE)

\* C5: clean_docstring called on a string it returned returns that string.
C5_Idempotent ==
    (op = "clean_docstring" /\ pass = 2 /\ pc \in {"returned", "raised"}) =>
        (pc = "returned" /\ ret = docstring)

\* C6: clean_docstring raises on no input: no exception escapes, the walk
\* is over a list of at least one line and never passes its end, and the
\* call returns a string or None together with a tag list that was
\* assigned.
C6_CleanNeverRaises ==
    op = "clean_docstring" =>
        /\ pc # "raised" /\ exc = "none"
        /\ pc \in {"loop", "join"} =>
              (Len(docstring_list) >= 1 /\ i \in 1..(Len(docstring_list) + 1))
        /\ pc = "join" => res_bound
        /\ pc = "returned" => res_bound

\* C6, witness: the call returned after the gate was handed a line that
\* aside or tag removal had left empty or whitespace-only.
C6_Witness ==
    /\ op = "clean_docstring" /\ pc = "returned"
    /\ i <= Len(docstring_list)
    /\ Strip(remove_special_tag(docstring_list[i])) = <<>>

\* C7: each of the nine active predicates, called directly on any string,
\* the empty one included, returns a boolean and raises nothing.
C7_PredicatesTotal ==
    (op = "predicate" /\ pc = "returned") => outcome.exc = "none"

\* pattern1 of remove_unrelevant read with a dot that matches line breaks:
\* index of the first ")" after the marker, or 0.
AsideEndAcrossLines(s, k) ==
    IF k > Len(s) \/ s[k] # "(" THEN 0
    ELSE LET ms == {m \in 1..Len(AsideMarkers) :
                       MatchAt(s, k + 1, AsideMarkers[m])}
         IN  IF ms = {} THEN 0
             ELSE LET from == k + 1 + Len(AsideMarkers[Min(ms)])
                      stops == {j \in from..Len(s) : s[j] = ")"}
                  IN  IF stops = {} THEN 0 ELSE Min(stops)

\* The text with every aside removed, those that span a line break included.
RECURSIVE RemoveAsidesAcrossLines(_)
RemoveAsidesAcrossLines(s) ==
    LET hits == {k \in 1..Len(s) : AsideEndAcrossLines(s, k) > 0}
    IN  IF hits = {} THEN s
        ELSE LET k == Min(hits)
             IN  SubSeq(s, 1, k - 1)
                 \o RemoveAsidesAcrossLines(SubSeq(s,
                        AsideEndAcrossLines(s, k) + 1, Len(s)))

\* C8: the asides are removed from the joined text before it is split, so
\* an aside that opens on one line and closes on a later one is removed in
\* full: the lines handed to the gate are those of the text without it.
C8_AsideAcrossLinesRemoved ==
    (op = "clean_docstring" /\ pc \in {"loop", "join", "returned"}) =>
        docstring_list =
            SplitOn(Strip(RemoveAsidesAcrossLines(
                Join(remove_comment_delimiters(docstring), "\n"))), "\n")

\* The tags check_docstring is to return on a line: one per predicate
\* that fires, in battery order.
FiredTags(line) ==
    SelectSeq([k \in 1..Len(Battery) |-> <<Battery[k], line>>],
              LAMBDA t : ApplyPredicate(t[1], line).val)

\* C9: on an empty or None line check_docstring returns (True, []) and
\* calls no predicate; on any other line it calls all nine, returns the
\* disjunction of their results and one tag per predicate that fired, in
\* battery order.
C9_GateRunsWholeBattery ==
    (op = "check_docstring" /\ pc = "returned") =>
        IF docstring \in {<<>>, NoneValue}
        THEN outcome = GateOutcome("none", TRUE, <<>>, 0)
        ELSE /\ outcome.exc = "none"
             /\ outcome.evaluated = Len(Battery)
             /\ outcome.result =
                   (\E k \in 1..Len(Battery) :
                        ApplyPredicate(Battery[k], docstring).val)
             /\ outcome.applied_res = FiredTags(docstring)

\* C9, witness: a line on which the first predicate does not fire and two
\* or more later ones do.
C9_Witness ==
    /\ op = "check_docstring" /\ pc = "returned"
    /\ Len(outcome.applied_res) >= 2
    /\ outcome.applied_res[1][1] # Battery[1]

\* C10: no stage after remove_comment_delimiters brings an empty line
\* back: every kept line is non-empty and a returned string holds no
\* blank line.
C10_NoBlankLineReturned ==
    (op = "clean_docstring" /\ pc = "returned") =>
        /\ \A k \in 1..Len(cleaned_docstring) : cleaned_docstring[k] # <<>>
        /\ ret # NoneValue =>
              \A k \in 1..Len(SplitOn(ret, "\n")) : SplitOn(ret, "\n")[k] # <<>>

====
